---- MODULE Spec2Model ----
(***************************************************************************)
(* splitwavepy, eigenvalue method of Silver and Chan (1991).               *)
(*                                                                         *)
(* eigval.py  : grideigval, ftest (low level, works on samples)            *)
(* eigenM.py  : EigenM.__init__ (converts times to samples, drives the     *)
(*              grid search, derives the measurement)                      *)
(* core.lag   : as asserted by testing/core_tests.py                       *)
(*                                                                         *)
(* Trace data is symbolic: a pair is the sequence of operations applied    *)
(* to the raw input, so that what was done to it, with which arguments and *)
(* in which order, can be read off every value computed from it.           *)
(***************************************************************************)
EXTENDS Integers, Sequences, FiniteSets, TLC

-----------------------------------------------------------------------------
(* Bounds of the model *)

\* times are drawn from -MaxT..MaxT (in ticks; delta is in the same ticks)
MaxT == 3
\* sampling intervals are drawn from 1..MaxDelta
MaxDelta == 2
\* a supplied tlags array has at most MaxTlags entries
MaxTlags == 2
\* a supplied lags or degs array has at most MaxGrid entries
MaxGrid == 2
\* ndf values handed to ftest are drawn from 1..MaxNdf
MaxNdf == 4
\* samples of the channels handed to lag, and their number
MaxSamp == 1
MaxChan == 4
\* candidate delays handed to grideigval are the even numbers of 0..MaxLag
MaxLag == 2
\* eigenvalues of a numeric surface are drawn from 0..MaxLam
MaxLam == 2

-----------------------------------------------------------------------------
(* Python values *)

\* an optional scalar: None is {}, the number n is {n}
None == {}
Some(n) == {n}
Val(s) == CHOOSE n \in s : TRUE

\* a keyword argument: absent from kwargs, present with None, present with v
Absent(d) == [st |-> "absent", v |-> d]
PyNone(d) == [st |-> "none", v |-> d]
Given(v) == [st |-> "val", v |-> v]

Abs(n) == IF n < 0 THEN -n ELSE n

\* int(num/den), den > 0: truncation toward zero
PyInt(num, den) == IF num >= 0 THEN num \div den ELSE -((-num) \div den)

\* np.rint(num/den), den > 0: nearest integer, halves to the even one
rint(num, den) ==
    LET q == num \div den
        r == num % den
    IN  IF 2 * r < den THEN q
        ELSE IF 2 * r > den THEN q + 1
        ELSE IF q % 2 = 0 THEN q ELSE q + 1

\* the elements of a sequence as a set
Range(s) == {s[i] : i \in DOMAIN s}

RECURSIVE SortedSeq(_)
\* the numbers of a finite set in ascending order
SortedSeq(S) ==
    IF S = {} THEN <<>>
    ELSE LET m == CHOOSE a \in S : \A b \in S : a <= b
         IN  <<m>> \o SortedSeq(S \ {m})

\* np.unique: the sorted distinct elements
unique(s) == SortedSeq(Range(s))

\* sequences over S of length at most n
SeqsUpTo(S, n) == UNION {[1..m -> S] : m \in 0..n}

-----------------------------------------------------------------------------
(* Collaborators of the search (core.rotate, core.unsplit, core.chop,       *)
(* the grid-search use of core.lag): symbolic, each appends what it did.    *)

NoWindow == [nsamps |-> 0, offset |-> 0]

Op(f, deg, nsamps, win) == [f |-> f, deg |-> deg, nsamps |-> nsamps, win |-> win]

rotate(d, deg) == Append(d, Op("rotate", deg, 0, PyNone(NoWindow)))

lagged(d, nsamps) == Append(d, Op("lag", 0, nsamps, PyNone(NoWindow)))

unsplit(d, deg, nsamps) == Append(d, Op("unsplit", deg, nsamps, PyNone(NoWindow)))

chop(d, window) == Append(d, Op("chop", 0, 0, window))

-----------------------------------------------------------------------------
(* eigval.py *)

\* program constants of the default search
lagfrac == 10
nlinspace == 30
stepang == 3
degmin == -90
degmax == 90

\* eigvalcov: the sorted eigenvalues of the covariance matrix of the data,
\* smallest (lambda2) first
eigvalcov(d) == <<[which |-> "lam2", of |-> d], [which |-> "lam1", of |-> d]>>

\* np.zeros: a cell no eigenvalue was written to
zero == [which |-> "zero", of |-> <<>>]

\* lines 38-43: the default delays for a trace of `size` samples
default_lags(size) ==
    LET m == PyInt(size, lagfrac)
        maxlag == IF m % 2 = 0 THEN m ELSE m + 1
        \* np.linspace(0, 0.5*maxlag, 30)[i] = (i-1) * (maxlag/2) / 29
        lags == [i \in 1..nlinspace |->
                    2 * rint((i - 1) * (maxlag \div 2), nlinspace - 1)]
    IN  unique(lags)

\* lines 45-48: np.arange(-90, 90, stepang)
default_degs ==
    [i \in 1..((degmax - degmin + stepang - 1) \div stepang) |->
        degmin + (i - 1) * stepang]

\* lines 50-55: Window(nsamps, offset, tukey=None)
default_window(size) ==
    LET n == PyInt(size, 2)
        nsamps == IF n % 2 = 1 THEN n ELSE n + 1
    IN  [nsamps |-> nsamps, offset |-> 0]

\* lines 38-55: kwargs after the defaults were filled in; a default is
\* computed for a key that is not in kwargs, and for no other
resolve(kwargs, size) ==
    [kwargs EXCEPT
        !.lags = IF @.st = "absent" THEN Given(default_lags(size)) ELSE @,
        !.degs = IF @.st = "absent" THEN Given(default_degs) ELSE @,
        !.window = IF @.st = "absent" THEN Given(default_window(size)) ELSE @]

\* np.asanyarray(v).reshape(-1) as np.meshgrid does it: None becomes the
\* one-element array [None]
asarray(opt) ==
    IF opt.st = "none" THEN <<None>>
    ELSE [i \in DOMAIN opt.v |-> Some(opt.v[i])]

\* indexing='ij' instead of numpy's default 'xy'
meshgrid_ij(xs, ys) ==
    LET na == Len(xs)
        nl == Len(ys)
    IN  [shape |-> <<na, nl>>,
         degs |-> [i \in 1..na |-> [j \in 1..nl |-> xs[i]]],
         lags |-> [i \in 1..na |-> [j \in 1..nl |-> ys[j]]]]

\* line 58-59: degs, lags = np.meshgrid(kwargs['degs'], kwargs['lags']);
\* both of shape (len(lags), len(degs))
meshgrid(xs, ys) ==
    LET na == Len(xs)
        nl == Len(ys)
    IN  [shape |-> <<nl, na>>,
         degs |-> [i \in 1..nl |-> [j \in 1..na |-> xs[j]]],
         lags |-> [i \in 1..nl |-> [j \in 1..na |-> ys[i]]]]

\* line 60-61: np.zeros(shape)
zeros(shape) == [i \in 1..shape[1] |-> [j \in 1..shape[2] |-> zero]]

\* lines 74-80: the source correction chosen once for all cells
srccorr(kwargs, d) ==
    IF kwargs.srccorr.st = "absent" THEN d
    ELSE unsplit(d, kwargs.srccorr.v[1], kwargs.srccorr.v[2])

\* lines 86-90: one cell, from the rotated pair t and the candidate delay l
unsplitcell(kwargs, t, l) ==
    chop(srccorr(kwargs, lagged(t, -l)), kwargs.window)

-----------------------------------------------------------------------------
(* State *)

VARIABLES
    entry,      \* what the caller invoked: "grideigval", "EigenM", "ftest",
                \* "optimum" (eigenM.py 87-91 on a surface), "lag"
    pc,         \* where the invoked code stands
    exc,        \* the exception that ended it, if one did
    \* grideigval's frame
    size,       \* x.size of the raw input
    x,          \* the trace pair (x, y)
    kwargs,
    shape, degs, lags, lam1, lam2,
    ii, jj,
    tx,         \* the rotated pair (tx, ty)
    nrcv,       \* how often the receiver correction was applied
    \* the other frames
    m,          \* EigenM.__init__
    f,          \* ftest
    o,          \* the optimum selection
    t           \* core.lag

gvars == <<size, x, kwargs, shape, degs, lags, lam1, lam2, ii, jj, tx, nrcv>>

vars == <<entry, pc, exc, gvars, m, f, o, t>>

NoExc == [type |-> "none", at |-> "none"]

Raise(type, at) == [type |-> type, at |-> at]

-----------------------------------------------------------------------------
(* grideigval(x, y, **kwargs) *)

\* lines 38-61: defaults, the grid, the empty surfaces
grideigval_grid ==
    /\ pc = "grideigval"
    /\ LET kw == resolve(kwargs, size)
           mg == meshgrid(asarray(kw.degs), asarray(kw.lags))
       IN  /\ kwargs' = kw
           /\ degs' = mg.degs
           /\ lags' = mg.lags
           /\ shape' = mg.shape
           /\ lam1' = zeros(mg.shape)
           /\ lam2' = zeros(mg.shape)
    /\ pc' = "rcvcorr"
    /\ UNCHANGED <<entry, exc, size, x, ii, jj, tx, nrcv, m, f, o, t>>

\* lines 69-71: if 'rcvcorr' in kwargs: x,y = core.unsplit(x,y,*kwargs['rcvcorr'])
grideigval_rcvcorr ==
    /\ pc = "rcvcorr"
    /\ IF kwargs.rcvcorr.st = "absent"
       THEN /\ pc' = "outer"
            /\ UNCHANGED <<x, nrcv, exc>>
       ELSE IF kwargs.rcvcorr.st = "none"
       THEN \* *None: argument after * must be an iterable
            /\ pc' = "raised"
            /\ exc' = Raise("TypeError", "rcvcorr")
            /\ UNCHANGED <<x, nrcv>>
       ELSE /\ x' = unsplit(x, kwargs.rcvcorr.v[1], kwargs.rcvcorr.v[2])
            /\ nrcv' = nrcv + 1
            /\ pc' = "outer"
            /\ UNCHANGED exc
    /\ ii' = 1
    /\ UNCHANGED <<entry, size, kwargs, shape, degs, lags, lam1, lam2, jj, tx,
                   m, f, o, t>>

\* lines 82-83: for ii in np.arange(shape[1]): tx, ty = rotate(x,y,degs[0,ii])
grideigval_rotate ==
    /\ pc = "outer"
    /\ ii <= shape[2]
    /\ IF shape[1] = 0
       THEN \* degs[0,ii] of an array with no rows
            /\ pc' = "raised"
            /\ exc' = Raise("IndexError", "rotate")
            /\ UNCHANGED tx
       ELSE IF degs[1][ii] = None
       THEN /\ pc' = "raised"
            /\ exc' = Raise("TypeError", "rotate")
            /\ UNCHANGED tx
       ELSE /\ tx' = rotate(x, Val(degs[1][ii]))
            /\ pc' = "inner"
            /\ UNCHANGED exc
    /\ jj' = 1
    /\ UNCHANGED <<entry, size, x, kwargs, shape, degs, lags, lam1, lam2, ii,
                   nrcv, m, f, o, t>>

\* lines 84-92: one cell of the column ii
grideigval_cell ==
    /\ pc = "inner"
    /\ jj <= shape[1]
    /\ IF lags[jj][ii] = None
       THEN \* -lags[jj,ii]: bad operand type for unary -
            /\ pc' = "raised"
            /\ exc' = Raise("TypeError", "lag")
            /\ UNCHANGED <<lam1, lam2, ii, jj>>
       ELSE IF kwargs.srccorr.st = "none"
       THEN /\ pc' = "raised"
            /\ exc' = Raise("TypeError", "srccorr")
            /\ UNCHANGED <<lam1, lam2, ii, jj>>
       ELSE LET u == unsplitcell(kwargs, tx, Val(lags[jj][ii]))
                e == eigvalcov(u)
            IN  /\ lam2' = [lam2 EXCEPT ![jj][ii] = e[1]]
                /\ lam1' = [lam1 EXCEPT ![jj][ii] = e[2]]
                /\ IF jj < shape[1]
                   THEN /\ jj' = jj + 1
                        /\ UNCHANGED <<pc, ii>>
                   ELSE /\ pc' = "outer"
                        /\ ii' = ii + 1
                        /\ UNCHANGED jj
                /\ UNCHANGED exc
    /\ UNCHANGED <<entry, size, x, kwargs, shape, degs, lags, tx, nrcv,
                   m, f, o, t>>

\* line 94: return degs,lags,lam1,lam2,kwargs['window']
grideigval_return ==
    /\ pc = "outer"
    /\ ii > shape[2]
    /\ pc' = "returned"
    /\ UNCHANGED <<entry, exc, gvars, m, f, o, t>>

-----------------------------------------------------------------------------
(* eigenM.py: EigenM.__init__(self, *args, **kwargs) *)

\* line 45-46: lags = 2 * np.rint(0.5 * tlags / delta); np.unique(lags).astype(int)
tlags2lags(tlags, delta) ==
    unique([i \in DOMAIN tlags |-> 2 * rint(tlags[i], 2 * delta)])

\* the odd count kept as it is
corr2samps_odd(time, delta) == PyInt(time, delta)

\* lines 58-59, 69-70: nsamps = int(time/delta), made even by adding 1
corr2samps(time, delta) ==
    LET nsamps == PyInt(time, delta)
    IN  IF nsamps % 2 = 0 THEN nsamps ELSE nsamps + 1

\* Pair.rotateto(degrees): rotates the pair's own samples so that trace1 is
\* at `degrees`
rotateto(p, degrees) ==
    IF p.angle = degrees THEN p
    ELSE [p EXCEPT !.data = rotate(@, degrees - p.angle), !.angle = degrees]

\* the Pair that self.data refers to
selfdata == IF m.data = "caller" THEN m.caller ELSE m.own

NoCorr == <<0, 0>>

\* lines 29-75: self.data, self.delta, and the options converted to samples
EigenM_convert ==
    /\ pc = "EigenM"
    /\ LET \* line 31: self.data = args[0] is the caller's object, not a copy
           data == IF m.args.isPair THEN "caller" ELSE "own"
           delta == m.caller.delta
           kw == m.kw
           ldegs == IF kw.degs.st = "val" THEN kw.degs ELSE PyNone(<<>>)
           llags == IF kw.tlags.st = "val"
                    THEN Given(tlags2lags(kw.tlags.v, delta))
                    ELSE PyNone(<<>>)
           lwindow == IF kw.window.st = "val" THEN kw.window
                      ELSE PyNone(NoWindow)
           lrcv == IF kw.rcvcorr.st = "val"
                   THEN Given(<<kw.rcvcorr.v[1],
                                corr2samps(kw.rcvcorr.v[2], delta)>>)
                   ELSE PyNone(NoCorr)
           lsrc == IF kw.srccorr.st = "val"
                   THEN Given(<<kw.srccorr.v[1],
                                corr2samps(kw.srccorr.v[2], delta)>>)
                   ELSE PyNone(NoCorr)
           intime(c) == IF c.st = "val"
                        THEN Given(<<c.v[1], c.v[2] * delta>>) ELSE c
       IN  m' = [m EXCEPT
                    !.data = data,
                    !.delta = delta,
                    !.loc = [degs |-> ldegs, lags |-> llags,
                             window |-> lwindow,
                             rcvcorr |-> lrcv, srccorr |-> lsrc],
                    !.rcvcorr = intime(lrcv),
                    !.srccorr = intime(lsrc)]
    /\ pc' = "rotateto"
    /\ UNCHANGED <<entry, exc, gvars, f, o, t>>

\* lines 77-78: self.data.rotateto(0)
EigenM_rotateto ==
    /\ pc = "rotateto"
    /\ m' = IF m.data = "caller"
            THEN [m EXCEPT !.caller = rotateto(@, 0)]
            ELSE [m EXCEPT !.own = rotateto(@, 0)]
    /\ pc' = "gridsearch"
    /\ UNCHANGED <<entry, exc, gvars, f, o, t>>

\* lines 80-83: eigval.grideigval(self.data.data, lags=lags, degs=degs,
\* window=window, rcvcorr=rcvcorr, srccorr=srccorr). The arguments are
\* evaluated, every keyword is passed; grideigval(x, y, **kwargs) is given
\* one positional argument and the call raises before its body runs.
EigenM_gridsearch ==
    /\ pc = "gridsearch"
    /\ m' = [m EXCEPT !.call = [x |-> selfdata.data, kwargs |-> m.loc]]
    /\ pc' = "raised"
    /\ exc' = Raise("TypeError", "grideigval")
    /\ UNCHANGED <<entry, gvars, f, o, t>>

-----------------------------------------------------------------------------
(* eigval.py: ftest(lam2, ndf, alpha=0.05) *)

\* two parameters, phi and dt
k == 2

\* the smallest element of a non-empty sequence of numbers
min(s) == CHOOSE a \in Range(s) : \A b \in Range(s) : a <= b

\* lines 129-134.  The value lam2min * (1 + (k/(ndf-k)) * F) is kept as its
\* parts; F = stats.f.ppf(1-alpha, k, ndf) is a positive number for ndf > 0.
\* With ndf = k the division is by zero: inf or nan for a numpy float (what
\* eigval.ndf returns), ZeroDivisionError for a Python number.
ftest(lam2_, ndf, isnp) ==
    LET lam2min == min(lam2_)
    IN  IF ndf - k # 0
        THEN [kind |-> "number", lam2min |-> lam2min, num |-> k, den |-> ndf - k]
        ELSE IF isnp
        THEN [kind |-> "nonfinite", lam2min |-> lam2min, num |-> k, den |-> 0]
        ELSE [kind |-> "ZeroDivisionError", lam2min |-> lam2min, num |-> k,
              den |-> 0]

NoRet == [kind |-> "none", lam2min |-> 0, num |-> 0, den |-> 0]

\* a call of ftest
ftest_call ==
    /\ pc = "ftest"
    /\ LET r == ftest(f.lam2, f.ndf, f.isnp)
       IN  IF r.kind = "ZeroDivisionError"
           THEN /\ pc' = "raised"
                /\ exc' = Raise("ZeroDivisionError", "ftest")
                /\ UNCHANGED f
           ELSE /\ pc' = "returned"
                /\ f' = [f EXCEPT !.ret = r]
                /\ UNCHANGED exc
    /\ UNCHANGED <<entry, gvars, m, o, t>>

-----------------------------------------------------------------------------
(* eigenM.py lines 87-91: the optimum of a completed surface *)

\* line 89: self.lam1/self.lam2 elementwise, as numpy divides: 0/0 is nan,
\* a/0 is inf, a quotient is kept as numerator and denominator
ratio(a, b) ==
    IF b = 0 THEN (IF a = 0 THEN [k |-> "nan", n |-> 0, d |-> 0]
                            ELSE [k |-> "inf", n |-> a, d |-> 0])
    ELSE [k |-> "num", n |-> a, d |-> b]

\* r > s for two ratios neither of which is nan
Greater(r, s) ==
    IF r.k = "inf" THEN s.k # "inf"
    ELSE IF s.k = "inf" THEN FALSE
    ELSE r.n * s.d > s.n * r.d

\* the cells of a surface of shape <<nr, nc>> in row-major order
cells(shp) == [c \in 1..(shp[1] * shp[2]) |->
                  <<((c - 1) \div shp[2]) + 1, ((c - 1) % shp[2]) + 1>>]

\* core.max_idx(vals): the index of the maximum, the first one in row-major
\* order; as numpy's argmax, a nan is the maximum
max_idx(vals, shp) ==
    LET cs == cells(shp)
        v(c) == vals[cs[c][1]][cs[c][2]]
        nans == {c \in DOMAIN cs : v(c).k = "nan"}
        maxs == {c \in DOMAIN cs :
                    \A c2 \in DOMAIN cs : ~Greater(v(c2), v(c))}
        first(S) == CHOOSE c \in S : \A c2 \in S : c <= c2
    IN  IF nans # {} THEN cs[first(nans)] ELSE cs[first(maxs)]

\* lines 89-91
EigenM_optimum ==
    /\ pc = "optimum"
    /\ LET vals == [i \in 1..o.shape[1] |-> [j \in 1..o.shape[2] |->
                       ratio(o.lam1[i][j], o.lam2[i][j])]]
           maxloc == max_idx(vals, o.shape)
       IN  o' = [o EXCEPT !.maxloc = maxloc,
                          !.fast = o.degs[maxloc[1]][maxloc[2]],
                          !.lag = o.lags[maxloc[1]][maxloc[2]]]
    /\ pc' = "returned"
    /\ UNCHANGED <<entry, exc, gvars, m, f, t>>

-----------------------------------------------------------------------------
(* core.lag(x, y, nsamps), as testing/core_tests.py asserts it *)

\* a shift to the same side whatever the sign
lag_onesided(x_, y_, nsamps) ==
    LET n == Len(x_)
        d == Abs(nsamps)
    IN  IF nsamps = 0 THEN <<x_, y_>>
        ELSE <<SubSeq(x_, d + 1, n), SubSeq(y_, 1, n - d)>>

\* nsamps > 0: x loses its first nsamps samples and y its last;
\* nsamps < 0: x loses its last and y its first
lag(x_, y_, nsamps) ==
    LET n == Len(x_)
        d == Abs(nsamps)
    IN  IF nsamps = 0 THEN <<x_, y_>>
        ELSE IF nsamps > 0
        THEN <<SubSeq(x_, d + 1, n), SubSeq(y_, 1, n - d)>>
        ELSE <<SubSeq(x_, 1, n - d), SubSeq(y_, d + 1, n)>>

\* lag(x, y, d)
lag_shift ==
    /\ pc = "lag"
    /\ t' = [t EXCEPT !.out = lag(t.x, t.y, t.d)]
    /\ pc' = "lagged"
    /\ UNCHANGED <<entry, exc, gvars, m, f, o>>

\* lag of the result with -d
lag_unshift ==
    /\ pc = "lagged"
    /\ t' = [t EXCEPT !.back = lag(t.out[1], t.out[2], -t.d)]
    /\ pc' = "returned"
    /\ UNCHANGED <<entry, exc, gvars, m, f, o>>

-----------------------------------------------------------------------------
(* Inputs *)

Sizes == {8, 25}

LagCands == {n \in 0..MaxLag : n % 2 = 0}

DegCands == {-45, 30}

AWindow == [nsamps |-> 5, offset |-> 0]

Times == (-MaxT)..MaxT

Deltas == 1..MaxDelta

\* what a caller of grideigval may pass: a key is left out, passed as None
\* (as EigenM passes an option it was not given), or passed with a value
GridKwargs ==
    [lags : {Absent(<<>>), PyNone(<<>>)}
            \cup {Given(v) : v \in SeqsUpTo(LagCands, MaxGrid)},
     degs : {Absent(<<>>), PyNone(<<>>)}
            \cup {Given(v) : v \in SeqsUpTo(DegCands, MaxGrid)},
     window : {Absent(NoWindow), PyNone(NoWindow), Given(AWindow)},
     rcvcorr : {Absent(NoCorr), PyNone(NoCorr), Given(<<30, 2>>)},
     srccorr : {Absent(NoCorr), PyNone(NoCorr), Given(<<60, 4>>)}]

GIdle ==
    /\ size = 0 /\ x = <<>> /\ kwargs = <<>>
    /\ shape = <<0, 0>> /\ degs = <<>> /\ lags = <<>>
    /\ lam1 = <<>> /\ lam2 = <<>>
    /\ ii = 0 /\ jj = 0 /\ tx = <<>> /\ nrcv = 0

\* what a caller of EigenM may pass.  The three conversions do not read each
\* other's input: tlags ranges over all arrays with the corrections left
\* out, and the corrections over all times with tlags left out or fixed.
CorrOpts == {Absent(NoCorr)} \cup {Given(<<30, tt>>) : tt \in Times}

EigenMConv ==
    [tlags : {Absent(<<>>)} \cup {Given(v) : v \in SeqsUpTo(Times, MaxTlags)},
     rcvcorr : {Absent(NoCorr)}, srccorr : {Absent(NoCorr)}]
    \cup
    [tlags : {Absent(<<>>), Given(<<2, 0>>)},
     rcvcorr : CorrOpts, srccorr : CorrOpts]

EigenMKwargs ==
    {[degs |-> dg, tlags |-> c.tlags, window |-> w,
      rcvcorr |-> c.rcvcorr, srccorr |-> c.srccorr] :
        dg \in {Absent(<<>>), Given(<<-45, 30>>)},
        w \in {Absent(NoWindow), Given(AWindow)},
        c \in EigenMConv}

NoLoc ==
    [degs |-> PyNone(<<>>), lags |-> PyNone(<<>>), window |-> PyNone(NoWindow),
     rcvcorr |-> PyNone(NoCorr), srccorr |-> PyNone(NoCorr)]

\* the frame of code that was not invoked
Idle == <<>>

\* a surface of eigenvalue pairs lam1 >= lam2 >= 0
EigPairs == {p \in (0..MaxLam) \X (0..MaxLam) : p[1] >= p[2]}

OGrid == [shape |-> <<2, 2>>,
          degs |-> <<<<-45, 30>>, <<-45, 30>>>>,
          lags |-> <<<<0, 0>>, <<2, 2>>>>]

InitGrid ==
    /\ entry = "grideigval" /\ pc = "grideigval" /\ exc = NoExc
    /\ size \in Sizes /\ x = <<>> /\ kwargs \in GridKwargs
    /\ shape = <<0, 0>> /\ degs = <<>> /\ lags = <<>>
    /\ lam1 = <<>> /\ lam2 = <<>>
    /\ ii = 0 /\ jj = 0 /\ tx = <<>> /\ nrcv = 0
    /\ m = Idle /\ f = Idle /\ o = Idle /\ t = Idle

InitEigenM ==
    /\ entry = "EigenM" /\ pc = "EigenM" /\ exc = NoExc
    /\ GIdle
    /\ \E isPair \in BOOLEAN, angle \in {0, 30}, delta \in Deltas,
          n \in Sizes, kw \in EigenMKwargs :
          /\ (~isPair => angle = 0)
          /\ LET p == [angle |-> angle, data |-> <<>>, delta |-> delta,
                       size |-> n]
             IN  m = [args |-> [isPair |-> isPair], kw |-> kw,
                      \* the caller's Pair (or raw arrays), and as it was
                      caller |-> p, caller0 |-> p,
                      \* Pair(*args, **kwargs) built from the raw arrays
                      own |-> [p EXCEPT !.angle = 0],
                      data |-> "unset", delta |-> 0, loc |-> NoLoc,
                      rcvcorr |-> PyNone(NoCorr), srccorr |-> PyNone(NoCorr),
                      call |-> [x |-> <<>>, kwargs |-> NoLoc]]
    /\ f = Idle /\ o = Idle /\ t = Idle

InitFtest ==
    /\ entry = "ftest" /\ pc = "ftest" /\ exc = NoExc
    /\ GIdle /\ m = Idle /\ o = Idle /\ t = Idle
    /\ \E l \in SeqsUpTo(1..MaxLam, MaxGrid) \ {<<>>}, ndf \in 1..MaxNdf,
          isnp \in BOOLEAN :
          f = [lam2 |-> l, ndf |-> ndf, isnp |-> isnp, ret |-> NoRet]

InitOptimum ==
    /\ entry = "optimum" /\ pc = "optimum" /\ exc = NoExc
    /\ GIdle /\ m = Idle /\ f = Idle /\ t = Idle
    /\ \E e \in [(1..2) \X (1..2) -> EigPairs] :
          o = [shape |-> OGrid.shape, degs |-> OGrid.degs, lags |-> OGrid.lags,
               lam1 |-> [i \in 1..2 |-> [j \in 1..2 |-> e[<<i, j>>][1]]],
               lam2 |-> [i \in 1..2 |-> [j \in 1..2 |-> e[<<i, j>>][2]]],
               maxloc |-> <<0, 0>>, fast |-> 0, lag |-> 0]

InitLag ==
    /\ entry = "lag" /\ pc = "lag" /\ exc = NoExc
    /\ GIdle /\ m = Idle /\ f = Idle /\ o = Idle
    /\ \E n \in 1..MaxChan :
       \E xs \in [1..n -> 0..MaxSamp], ys \in [1..n -> 0..MaxSamp],
          d \in 0..n :
          t = [x |-> xs, y |-> ys, d |-> d, out |-> <<>>, back |-> <<>>]

Init == InitGrid \/ InitEigenM \/ InitFtest \/ InitOptimum \/ InitLag

Next ==
    \/ grideigval_grid
    \/ grideigval_rcvcorr
    \/ grideigval_rotate
    \/ grideigval_cell
    \/ grideigval_return
    \/ EigenM_convert
    \/ EigenM_rotateto
    \/ EigenM_gridsearch
    \/ ftest_call
    \/ EigenM_optimum
    \/ lag_shift
    \/ lag_unshift

Spec == Init /\ [][Next]_vars

-----------------------------------------------------------------------------
(* Properties *)

\* the names of the operations applied to a pair, in order
names(d) == [i \in DOMAIN d |-> d[i].f]

IsRotLag(op) == op.f \in {"rotate", "lag"}

\* the cells of the surfaces an eigenvalue was written to
Evaluated == {c \in (1..shape[1]) \X (1..shape[2]) :
                 lam1[c[1]][c[2]] # zero \/ lam2[c[1]][c[2]] # zero}

\* C1: for non-empty candidate angles A (na of them) and delays L (nl),
\* grideigval returns an angle grid, a delay grid, lam1 and lam2 all of shape
\* (nl, na); delaygrid[i,j] = L[i], anglegrid[i,j] = A[j], and lam1[i,j],
\* lam2[i,j] are the larger and smaller eigenvalue of the trace rotated to
\* A[j] with the delay L[i] removed
C1_GridOrientation ==
    (/\ entry = "grideigval" /\ pc = "returned"
     /\ kwargs.degs.st = "val" /\ kwargs.lags.st = "val"
     /\ kwargs.degs.v # <<>> /\ kwargs.lags.v # <<>>)
    => LET A == kwargs.degs.v
           L == kwargs.lags.v
           nl == Len(L)
           na == Len(A)
       IN  /\ shape = <<nl, na>>
           /\ Len(degs) = nl /\ Len(lags) = nl
           /\ Len(lam1) = nl /\ Len(lam2) = nl
           /\ \A i \in 1..nl :
                /\ Len(degs[i]) = na /\ Len(lags[i]) = na
                /\ Len(lam1[i]) = na /\ Len(lam2[i]) = na
                /\ \A j \in 1..na :
                     /\ degs[i][j] = Some(A[j])
                     /\ lags[i][j] = Some(L[i])
                     /\ lam1[i][j].which = "lam1"
                     /\ lam2[i][j].which = "lam2"
                     /\ lam1[i][j].of = lam2[i][j].of
                     /\ SelectSeq(lam1[i][j].of, IsRotLag)
                          = <<Op("rotate", A[j], 0, PyNone(NoWindow)),
                              Op("lag", 0, -L[i], PyNone(NoWindow))>>

\* a returned 2 x 2 search over two different angles and two different delays
C1_Witness ==
    /\ entry = "grideigval" /\ pc = "returned"
    /\ kwargs.degs = Given(<<-45, 30>>) /\ kwargs.lags = Given(<<0, 2>>)
    /\ lam1[2][1].which = "lam1" /\ lam1[1][2].which = "lam1"

\* C2: an option EigenM was not given (degs, tlags, window) is not handed to
\* the search as None, and the search makes its default of it: angles
\* -90, -87, ..., 87, the deduplicated even delays, the window of offset 0
\* and odd length about N/2
C2_DefaultsUsed ==
    (entry = "EigenM" /\ pc = "raised")
    => LET n == selfdata.size
           \* what the search makes of the keywords it is handed
           kw == resolve(m.call.kwargs, n)
       IN  /\ m.kw.degs.st = "absent"
              => (m.call.kwargs.degs.st # "none"
                  /\ kw.degs = Given(default_degs))
           /\ m.kw.tlags.st = "absent"
              => (m.call.kwargs.lags.st # "none"
                  /\ kw.lags = Given(default_lags(n)))
           /\ m.kw.window.st = "absent"
              => (m.call.kwargs.window.st # "none"
                  /\ kw.window = Given(default_window(n)))

\* the order of the operations behind an evaluated cell
CellOrder ==
    (IF kwargs.rcvcorr.st = "val" THEN <<"unsplit">> ELSE <<>>)
    \o <<"rotate", "lag">>
    \o (IF kwargs.srccorr.st = "val" THEN <<"unsplit">> ELSE <<>>)
    \o <<"chop">>

\* C3: in every run of the search a configured receiver correction is applied
\* once, to the whole pair, before the first cell; every cell is rotate, lag,
\* source correction if configured, chop, eigenvalues; a correction that is
\* not configured (left out, or None as EigenM passes it) gives no
\* correction step
C3_CorrectionSteps ==
    entry = "grideigval"
    => /\ kwargs.rcvcorr.st # "val" => (nrcv = 0 /\ exc.at # "rcvcorr")
       /\ kwargs.srccorr.st # "val" => exc.at # "srccorr"
       /\ (kwargs.rcvcorr.st = "val" /\ pc \in {"outer", "inner", "returned"})
          => nrcv = 1
       /\ pc \in {"grideigval", "rcvcorr"} => Evaluated = {}
       /\ \A c \in Evaluated :
            /\ names(lam1[c[1]][c[2]].of) = CellOrder
            /\ names(lam2[c[1]][c[2]].of) = CellOrder

\* C4: the caller's Pair holds the same samples and the same angle throughout
\* a measurement
C4_CallerPairUnchanged ==
    (entry = "EigenM" /\ m.args.isPair) => m.caller = m.caller0

\* the ratio lam1/lam2 of the cell c of the numeric surface
oratio(c) == ratio(o.lam1[c[1]][c[2]], o.lam2[c[1]][c[2]])

OCells == (1..o.shape[1]) \X (1..o.shape[2])

C6_NdfDegenerate ==
    (entry = "ftest" /\ f.ndf <= k)
    => ~(pc = "returned" /\ f.ret.kind \in {"number", "nonfinite"})

\* C7: an empty candidate angle or delay sequence is rejected before any
\* cell is evaluated, and no result is returned for it
C7_EmptyGridRejected ==
    (/\ entry = "grideigval"
     /\ \/ kwargs.degs = Given(<<>>)
        \/ kwargs.lags = Given(<<>>))
    => /\ pc # "returned"
       /\ Evaluated = {}

\* the options as converted by EigenM, once converted
Converted == entry = "EigenM" /\ pc # "EigenM"

\* C8: every delay EigenM hands to the search is even: the receiver and the
\* source correction delay, and each delay converted from tlags; the
\* converted delays are strictly ascending
C8_EvenDelays ==
    Converted
    => /\ m.loc.rcvcorr.st = "val" => m.loc.rcvcorr.v[2] % 2 = 0
       /\ m.loc.srccorr.st = "val" => m.loc.srccorr.v[2] % 2 = 0
       /\ m.loc.lags.st = "val"
          => /\ \A i \in DOMAIN m.loc.lags.v : m.loc.lags.v[i] % 2 = 0
             /\ \A i \in DOMAIN m.loc.lags.v : \A j \in DOMAIN m.loc.lags.v :
                  i < j => m.loc.lags.v[i] < m.loc.lags.v[j]
       /\ pc = "raised" => m.call.kwargs = m.loc

\* corrections of 3 and -3 samples and two unsorted times were handed over
C8_Witness ==
    /\ entry = "EigenM" /\ pc = "raised"
    /\ m.delta = 1
    /\ m.kw.rcvcorr = Given(<<30, 3>>) /\ m.call.kwargs.rcvcorr.v[2] = 4
    /\ m.kw.srccorr = Given(<<30, -3>>) /\ m.call.kwargs.srccorr.v[2] = -2
    /\ m.kw.tlags = Given(<<2, 0>>) /\ m.call.kwargs.lags.v = <<0, 2>>

\* C9: for 0 <= d, 2d < N, lag by d and then by -d gives both channels
\* trimmed to the samples d..N-d-1, and lag by 0 gives x and y; lag by d > 0
\* gives (x[d..N-1], y[0..N-d-1])
C9_LagRoundTrip ==
    (entry = "lag" /\ 2 * t.d < Len(t.x))
    => LET n == Len(t.x)
       IN  /\ (pc \in {"lagged", "returned"} /\ t.d = 0) => t.out = <<t.x, t.y>>
           /\ (pc \in {"lagged", "returned"} /\ t.d > 0)
              => t.out = <<SubSeq(t.x, t.d + 1, n), SubSeq(t.y, 1, n - t.d)>>
           /\ pc = "returned"
              => t.back = <<SubSeq(t.x, t.d + 1, n - t.d),
                            SubSeq(t.y, t.d + 1, n - t.d)>>

\* a round trip by one sample on channels whose samples differ
C9_Witness ==
    /\ entry = "lag" /\ pc = "returned"
    /\ t.d = 1 /\ t.x = <<0, 1, 0, 1>> /\ t.y = <<1, 1, 0, 0>>
    /\ t.back = <<<<1, 0>>, <<1, 0>>>>

\* C10: a correction's sample count is the nearest even integer
\* 2*round(0.5*t/delta), as for tlags
C10_SameConversion ==
    Converted
    => /\ m.loc.rcvcorr.st = "val"
          => m.loc.rcvcorr.v[2] = 2 * rint(m.kw.rcvcorr.v[2], 2 * m.delta)
       /\ m.loc.srccorr.st = "val"
          => m.loc.srccorr.v[2] = 2 * rint(m.kw.srccorr.v[2], 2 * m.delta)

====
